---- MODULE Spec2Model ----
(***************************************************************************)
(* A model of the two confinement services of this repository:            *)
(*   drive_playground/drive_playground_service.py  (link-tree form)       *)
(*   local_bridge/code_bridge_service.py           (path-tree form)       *)
(* Python's None is the model value None; text is a sequence of one-      *)
(* character strings, so that strip, lstrip and removeprefix are computed *)
(* as the code computes them.                                             *)
(***************************************************************************)
EXTENDS Integers, Sequences, FiniteSets, TLC

VARIABLES
    graph,          \* Drive parent links: node id -> set of parent ids
    file_id,        \* is_under_playground: the node the walk was called with
    to_visit,       \* is_under_playground: the stack of nodes still to visit
    visited,        \* is_under_playground: the visited set
    wpc,            \* position of the walk: "idle", "loop", "done"
    wresult,        \* the value is_under_playground returned
    lookups,        \* history: the nodes whose parents were fetched, in order
    lookup_failed,  \* history: a parent fetch of this call raised
    iters,          \* history: loop iterations of this call
    auth_env,       \* the service's API key environment variable, as set
    auth_req,       \* the headers of the last require_api_key call: [x_api_key, authorization]
    auth_status,    \* its outcome: 200 (returned), 401, 500 (RuntimeError), 0 before a call
    links,          \* the symbolic links of the bridge's filesystem: a set of [link, target]
    path_in,        \* the text the last resolve_safe_path call was given
    path_out,       \* its outcome: [status, resolved]; status 200 (returned), 400, 0 before a call
    drive,          \* the files created in the Drive store, in order of creation
    dlast,          \* the Drive request being answered: request, response and what the handler did
    run_env,        \* CODE_BRIDGE_ALLOW_RUN, as the environment holds it
    bfs,            \* the bridge's project tree: location -> [kind, content]
    runs,           \* history: the commands the bridge has started
    blast,          \* the bridge request being answered: request, response and what the handler did
    writers         \* the Drive write requests in flight: handler thread -> its position and locals

walkVars == <<graph, file_id, to_visit, visited, wpc, wresult, lookups, lookup_failed, iters>>

authVars == <<auth_env, auth_req, auth_status>>

pathVars == <<links, path_in, path_out>>

driveVars == <<drive, dlast>>

bridgeVars == <<run_env, bfs, runs, blast>>

raceVars == <<writers>>

vars == <<walkVars, authVars, pathVars, driveVars, bridgeVars, raceVars>>

\* Python's None where a text is expected, and where an identifier is expected
None == <<"None">>

NoId == "None"

(***************************************************************************)
(* Bounds                                                                  *)
(***************************************************************************)
MaxParents == 2

MaxKeyLen == 2

MaxHeaderLen == 3

MaxPathLen == 5

\* the files the Drive store holds at most
MaxFiles == 2

\* the commands the bridge starts at most
MaxRuns == 2

(***************************************************************************)
(* Sequence helpers                                                        *)
(***************************************************************************)
Front(s) == SubSeq(s, 1, Len(s) - 1)

Last(s) == s[Len(s)]

\* every ordering of a finite set, as a sequence without repetition
Orders(S) == {s \in [1..Cardinality(S) -> S] : \A i, j \in 1..Cardinality(S) : s[i] = s[j] => i = j}

(***************************************************************************)
(* Ancestry Validator: is_under_playground                                 *)
(***************************************************************************)
Nodes == {"pg", "a", "b", "c"}

playground_id == "pg"

\* One iteration of the while loop over the explicit stack. parents is the
\* list the metadata fetch returns for the popped node and ok is whether the
\* fetch succeeded; neither is used when the node was visited or is the root.
WalkBodyFirstParentOnly(tv, vis, pg, parents, ok) ==
    LET fid  == Last(tv)
        rest == Front(tv)
        vis2 == vis \cup {fid}
        new  == SelectSeq(parents, LAMBDA p : p \notin vis2)
    IN  IF fid \in vis
        THEN [to_visit |-> rest, visited |-> vis, ret |-> "continue", fetched |-> FALSE]
        ELSE IF fid = pg
        THEN [to_visit |-> rest, visited |-> vis2, ret |-> "true", fetched |-> FALSE]
        ELSE IF ~ok
        THEN [to_visit |-> rest, visited |-> vis2, ret |-> "false", fetched |-> TRUE]
        ELSE [to_visit |-> rest \o (IF new = <<>> THEN <<>> ELSE <<new[1]>>),
              visited |-> vis2, ret |-> "continue", fetched |-> TRUE]

WalkBodySkipFailedBranch(tv, vis, pg, parents, ok) ==
    LET fid  == Last(tv)
        rest == Front(tv)
        vis2 == vis \cup {fid}
    IN  IF fid \in vis
        THEN [to_visit |-> rest, visited |-> vis, ret |-> "continue", fetched |-> FALSE]
        ELSE IF fid = pg
        THEN [to_visit |-> rest, visited |-> vis2, ret |-> "true", fetched |-> FALSE]
        ELSE IF ~ok
        THEN [to_visit |-> rest, visited |-> vis2, ret |-> "continue", fetched |-> TRUE]
        ELSE [to_visit |-> rest \o SelectSeq(parents, LAMBDA p : p \notin vis2),
              visited |-> vis2, ret |-> "continue", fetched |-> TRUE]

WalkBody(tv, vis, pg, parents, ok) ==
    LET fid  == Last(tv)
        rest == Front(tv)
        vis2 == vis \cup {fid}
    IN  IF fid \in vis
        THEN [to_visit |-> rest, visited |-> vis, ret |-> "continue", fetched |-> FALSE]
        ELSE IF fid = pg
        THEN [to_visit |-> rest, visited |-> vis2, ret |-> "true", fetched |-> FALSE]
        ELSE IF ~ok
        THEN [to_visit |-> rest, visited |-> vis2, ret |-> "false", fetched |-> TRUE]
        ELSE [to_visit |-> rest \o SelectSeq(parents, LAMBDA p : p \notin vis2),
              visited |-> vis2, ret |-> "continue", fetched |-> TRUE]

\* the parent graphs: every node has at most MaxParents parents
ParentSets == {S \in SUBSET Nodes : Cardinality(S) <= MaxParents}

WalkIdle ==
    /\ graph = [n \in Nodes |-> {}]
    /\ file_id = NoId
    /\ to_visit = <<>>
    /\ visited = {}
    /\ wpc = "idle"
    /\ wresult = FALSE
    /\ lookups = <<>>
    /\ lookup_failed = FALSE
    /\ iters = 0

AuthIdle ==
    /\ auth_env = <<>>
    /\ auth_req = [x_api_key |-> None, authorization |-> None]
    /\ auth_status = 0

\* no Drive request
NoDriveRequest ==
    [op |-> "idle", req |-> <<>>, fault |-> "none", status |-> 0, log |-> <<>>, action |-> "",
     id |-> NoId, body |-> <<>>, before |-> <<>>, again |-> FALSE, first |-> <<>>]

DriveIdle ==
    /\ drive = <<>>
    /\ dlast = NoDriveRequest

\* the handler threads that serve Drive write requests side by side
Writers == {1, 2}

IdleWriter ==
    [pc |-> "idle", req |-> <<>>, plan |-> <<>>, pick |-> NoId, status |-> 0, action |-> "",
     id |-> NoId]

RaceIdle == writers = [w \in Writers |-> IdleWriter]

BridgeIdle ==
    /\ run_env = None
    /\ bfs = <<>>
    /\ runs = 0
    /\ blast = [op |-> "idle", req |-> <<>>, status |-> 0, log |-> <<>>, body |-> <<>>]

PathIdle ==
    /\ links = {}
    /\ path_in = <<>>
    /\ path_out = [status |-> 0, resolved |-> <<>>]

WalkInit ==
    /\ AuthIdle
    /\ PathIdle
    /\ DriveIdle
    /\ BridgeIdle
    /\ RaceIdle
    /\ graph \in [Nodes -> ParentSets]
    /\ graph[playground_id] \subseteq {"a"}
    /\ file_id = NoId
    /\ to_visit = <<>>
    /\ visited = {}
    /\ wpc = "idle"
    /\ wresult = FALSE
    /\ lookups = <<>>
    /\ lookup_failed = FALSE
    /\ iters = 0

\* is_under_playground(service, f, playground_id) is entered
WalkCall(f) ==
    /\ wpc = "idle"
    /\ file_id' = f
    /\ to_visit' = <<f>>
    /\ visited' = {}
    /\ wpc' = "loop"
    /\ wresult' = FALSE
    /\ lookups' = <<>>
    /\ lookup_failed' = FALSE
    /\ iters' = 0
    /\ UNCHANGED graph
    /\ UNCHANGED <<authVars, pathVars, driveVars, bridgeVars, raceVars>>

\* one iteration of `while to_visit:`
WalkIter ==
    /\ wpc = "loop"
    /\ to_visit # <<>>
    /\ \E ok \in BOOLEAN, parents \in Orders(graph[Last(to_visit)]) :
          LET r == WalkBody(to_visit, visited, playground_id, parents, ok)
          IN  /\ to_visit' = r.to_visit
              /\ visited' = r.visited
              /\ wpc' = IF r.ret = "continue" THEN "loop" ELSE "done"
              /\ wresult' = (r.ret = "true")
              /\ lookups' = IF r.fetched THEN Append(lookups, Last(to_visit)) ELSE lookups
              /\ lookup_failed' = (r.fetched /\ ~ok)
    /\ iters' = iters + 1
    /\ UNCHANGED <<graph, file_id>>
    /\ UNCHANGED <<authVars, pathVars, driveVars, bridgeVars, raceVars>>

\* the loop ends with nothing left to visit: return False
WalkExhausted ==
    /\ wpc = "loop"
    /\ to_visit = <<>>
    /\ wpc' = "done"
    /\ wresult' = FALSE
    /\ UNCHANGED <<graph, file_id, to_visit, visited, lookups, lookup_failed, iters>>
    /\ UNCHANGED <<authVars, pathVars, driveVars, bridgeVars, raceVars>>

\* the caller takes the result; the next check starts afresh
WalkReturn ==
    /\ wpc = "done"
    /\ wpc' = "idle"
    /\ UNCHANGED <<graph, file_id, to_visit, visited, wresult, lookups, lookup_failed, iters>>
    /\ UNCHANGED <<authVars, pathVars, driveVars, bridgeVars, raceVars>>

WalkNext ==
    \/ \E f \in Nodes : WalkCall(f)
    \/ WalkIter
    \/ WalkExhausted
    \/ WalkReturn

SpecWalk == WalkInit /\ [][WalkNext]_vars

(***************************************************************************)
(* Properties of the Ancestry Validator                                    *)
(***************************************************************************)
\* the nodes reachable from the nodes of S by following parent links, S included
RECURSIVE UpClosure(_)
UpClosure(S) ==
    LET T == S \cup UNION {graph[n] : n \in S}
    IN  IF T = S THEN S ELSE UpClosure(T)

EdgeCount == LET RECURSIVE Sum(_)
                 Sum(S) == IF S = {} THEN 0
                           ELSE LET n == CHOOSE x \in S : TRUE
                                IN  Cardinality(graph[n]) + Sum(S \ {n})
             IN  Sum(Nodes)

\* C2: when every parent lookup of a call succeeded, is_under_playground
\* returns true exactly when the root is the node itself or is reachable from
\* it over parent links (any parent at each hop), and the loop ends: a call
\* never runs more iterations than one plus the number of parent links.
C2_WalkDecidesReachability ==
    /\ (wpc = "done" /\ ~lookup_failed) =>
           (wresult <=> playground_id \in UpClosure({file_id}))
    /\ iters <= 1 + EdgeCount
    /\ (wpc = "loop" /\ to_visit = <<>>) => ENABLED WalkExhausted

\* a finished call on a node with two parents whose ancestor chain is cyclic
\* and never reaches the root: it returned false
C2_Witness ==
    /\ wpc = "done"
    /\ ~lookup_failed
    /\ ~wresult
    /\ Cardinality(graph[file_id]) = 2
    /\ file_id \in UpClosure(graph[file_id])
    /\ playground_id \notin UpClosure({file_id})

\* C3: as soon as a parent lookup fails the call is over and its result is
\* false; the failed lookup is the last one made, so the nodes still on the
\* stack are not explored.
C3_FailClosed ==
    lookup_failed =>
        /\ wpc # "loop"
        /\ ~ENABLED WalkIter
        /\ ~wresult

\* a lookup failed after another branch was explored, with nodes still waiting
\* and the root in fact reachable from the node
C3_Witness ==
    /\ lookup_failed
    /\ Len(lookups) >= 2
    /\ to_visit # <<>>
    /\ playground_id \in UpClosure({file_id})

(***************************************************************************)
(* Text: a sequence of one-character strings. The scheme word of the       *)
(* Authorization header is the single symbol "Bearer".                     *)
(***************************************************************************)
RECURSIVE Texts(_, _)
Texts(chars, n) ==
    IF n = 0 THEN {<<>>}
    ELSE LET shorter == Texts(chars, n - 1)
         IN  shorter \cup {Append(t, c) : t \in {u \in shorter : Len(u) = n - 1}, c \in chars}

IsSpace(c) == c = " "

\* str.lstrip(): leading whitespace removed
RECURSIVE LStrip(_)
LStrip(t) == IF t # <<>> /\ IsSpace(t[1]) THEN LStrip(Tail(t)) ELSE t

\* str.rstrip(): trailing whitespace removed
RECURSIVE RStrip(_)
RStrip(t) == IF t # <<>> /\ IsSpace(Last(t)) THEN RStrip(Front(t)) ELSE t

\* str.strip()
Strip(t) == RStrip(LStrip(t))

StartsWith(t, prefix) ==
    Len(t) >= Len(prefix) /\ SubSeq(t, 1, Len(prefix)) = prefix

\* str.removeprefix(prefix): the prefix is removed once, when it is there
RemovePrefix(t, prefix) ==
    IF StartsWith(t, prefix) THEN SubSeq(t, Len(prefix) + 1, Len(t)) ELSE t

\* `value or ""` for an optional header or variable
OrEmpty(v) == IF v = None THEN <<>> ELSE v

(***************************************************************************)
(* Authenticator: get_api_key and require_api_key (the same in both        *)
(* services)                                                               *)
(***************************************************************************)
AuthChars == {"Bearer", " ", "k"}

\* the characters of the configured secret, as the environment holds it
KeyChars == {" ", "k"}

BearerPrefix == <<"Bearer", " ">>

\* get_api_key: the stripped environment value, or RuntimeError when it is empty
get_api_key(env) == Strip(OrEmpty(env))

BearerKeepPrefix(authorization) == Strip(OrEmpty(authorization))

\* bearer = (authorization or "").strip().removeprefix("Bearer ")
Bearer(authorization) == RemovePrefix(Strip(OrEmpty(authorization)), BearerPrefix)

\* x_api_key or bearer: the first one that is neither None nor empty
Presented(x_api_key, authorization) ==
    IF x_api_key # None /\ x_api_key # <<>> THEN x_api_key ELSE Bearer(authorization)

\* the status require_api_key ends with: 200 when it returns
require_api_key(env, x_api_key, authorization) ==
    IF get_api_key(env) = <<>> THEN 500
    ELSE IF Presented(x_api_key, authorization) # get_api_key(env) THEN 401
    ELSE 200

AuthInit ==
    /\ WalkIdle
    /\ PathIdle
    /\ DriveIdle
    /\ BridgeIdle
    /\ RaceIdle
    /\ auth_env \in {None} \cup Texts(KeyChars, MaxKeyLen)
    /\ auth_req = [x_api_key |-> None, authorization |-> None]
    /\ auth_status = 0

\* a request's headers reach require_api_key
AuthCall(x_api_key, authorization) ==
    /\ auth_status = 0
    /\ auth_req' = [x_api_key |-> x_api_key, authorization |-> authorization]
    /\ auth_status' = require_api_key(auth_env, x_api_key, authorization)
    /\ UNCHANGED <<auth_env, walkVars, pathVars, driveVars, bridgeVars, raceVars>>

\* the request is over; the next one is independent of it
AuthReturn ==
    /\ auth_status # 0
    /\ auth_req' = [x_api_key |-> None, authorization |-> None]
    /\ auth_status' = 0
    /\ UNCHANGED <<auth_env, walkVars, pathVars, driveVars, bridgeVars, raceVars>>

AuthNext ==
    \/ \E x \in {None} \cup Texts(AuthChars, MaxKeyLen),
          a \in {None} \cup Texts(AuthChars, MaxHeaderLen) : AuthCall(x, a)
    \/ AuthReturn

SpecAuth == AuthInit /\ [][AuthNext]_vars

\* the configured secret, once get_api_key has returned it
ConfiguredKey == Strip(OrEmpty(auth_env))

\* C5 (as amended): with a secret configured, a call succeeds exactly when
\* the header it reads carries the secret: a non-empty X-API-Key is compared
\* as it is and alone decides; only when X-API-Key is missing or empty is the
\* Authorization value read, with the whitespace around it and one leading
\* "Bearer " removed. The secret in X-API-Key alone, or as "Bearer <secret>"
\* in Authorization alone, succeeds; every other call ends with 401.
C5_AuthExactMatch ==
    (auth_status # 0 /\ ConfiguredKey # <<>>) =>
        LET x == auth_req.x_api_key
            a == auth_req.authorization
            noDirect == x = None \/ x = <<>>
        IN  /\ auth_status \in {200, 401}
            /\ x = ConfiguredKey => auth_status = 200
            /\ (noDirect /\ a = BearerPrefix \o ConfiguredKey) => auth_status = 200
            /\ (~noDirect /\ x # ConfiguredKey) => auth_status = 401
            /\ (noDirect /\ Strip(OrEmpty(a)) \notin {ConfiguredKey, BearerPrefix \o ConfiguredKey})
                   => auth_status = 401
            /\ (noDirect /\ a \in {None, <<>>}) => auth_status = 401

\* the secret presented as a Bearer value, with no X-API-Key header, was accepted
C5_Witness ==
    /\ ConfiguredKey # <<>>
    /\ auth_req.x_api_key = None
    /\ auth_req.authorization = BearerPrefix \o ConfiguredKey
    /\ auth_status = 200

\* C5 as stated: the secret succeeds through either carrier alike, whether in
\* X-API-Key or as a Bearer value in Authorization, and a call succeeds only
\* when a carrier holds it (the Authorization value read generously: with or
\* without the scheme word, whitespace around it ignored).
C5_AsStated ==
    (auth_status # 0 /\ ConfiguredKey # <<>>) =>
        /\ auth_status \in {200, 401}
        /\ auth_req.x_api_key = ConfiguredKey => auth_status = 200
        /\ auth_req.authorization = BearerPrefix \o ConfiguredKey => auth_status = 200
        /\ auth_status = 200 =>
              \/ auth_req.x_api_key = ConfiguredKey
              \/ Strip(OrEmpty(auth_req.authorization)) \in {ConfiguredKey, BearerPrefix \o ConfiguredKey}

(***************************************************************************)
(* Boundary Resolver: get_project_root and resolve_safe_path. A location   *)
(* is the sequence of its names from the filesystem root; a name is a text *)
(* without a separator.                                                    *)
(***************************************************************************)
PathChars == {"/", ".", " ", "p", "l"}

\* get_project_root(): the configured directory, canonical: /s/p
project_root == << <<"s">>, <<"p">> >>

\* a directory beside the root whose name starts with the root's name: /s/pp
SiblingDir == << <<"s">>, <<"p", "p">> >>

\* the link inside the root that the filesystem may hold: /s/p/l
LinkPath == << <<"s">>, <<"p">>, <<"l">> >>

\* where it may point: above the root, beside it, inside it, elsewhere
LinkTargets == { << <<"s">> >>, SiblingDir, << <<"s">>, <<"p">>, <<"p">> >>, << <<"l">> >> }

\* str.lstrip("/")
RECURSIVE LStripSlash(_)
LStripSlash(t) == IF t # <<>> /\ t[1] = "/" THEN LStripSlash(Tail(t)) ELSE t

\* str.split("/"): the texts between the separators, empty ones included
RECURSIVE SplitSlash(_)
SplitSlash(t) ==
    IF \A i \in 1..Len(t) : t[i] # "/" THEN <<t>>
    ELSE LET k == CHOOSE i \in 1..Len(t) : t[i] = "/" /\ \A j \in 1..(i - 1) : t[j] # "/"
         IN  <<SubSeq(t, 1, k - 1)>> \o SplitSlash(SubSeq(t, k + 1, Len(t)))

\* Path(text) for a text without a leading separator: the names between the
\* separators, with the empty ones and the "." ones dropped (".." is kept)
PurePath(t) == SelectSeq(SplitSlash(t), LAMBDA n : n # <<>> /\ n # <<".">>)

\* Path.resolve(): the names taken left to right; ".." goes to the parent of
\* the location reached so far (the filesystem root is its own parent), and
\* a location that is a symbolic link is replaced by the link's target
RECURSIVE Resolve(_, _, _)
Resolve(cur, names, lks) ==
    IF names = <<>> THEN cur
    ELSE LET n    == names[1]
             next == IF n = <<".", ".">>
                     THEN (IF cur = <<>> THEN cur ELSE Front(cur))
                     ELSE Append(cur, n)
             here == IF \E l \in lks : l.link = next
                     THEN (CHOOSE l \in lks : l.link = next).target
                     ELSE next
         IN  Resolve(here, Tail(names), lks)

\* the text of a location: "/" before each name
RECURSIVE Render(_)
Render(loc) == IF loc = <<>> THEN <<>> ELSE <<"/">> \o loc[1] \o Render(Tail(loc))

RelativeToByTextPrefix(resolved, root) == StartsWith(Render(resolved), Render(root))

\* resolved.relative_to(root) does not raise: the names of resolved begin
\* with the names of root
RelativeTo(resolved, root) ==
    Len(resolved) >= Len(root) /\ SubSeq(resolved, 1, Len(root)) = root

resolve_safe_path(relative_path, lks) ==
    LET root     == project_root
        path     == IF Strip(relative_path) # <<>>
                    THEN PurePath(LStripSlash(Strip(relative_path)))
                    ELSE <<>>
        resolved == Resolve(<<>>, root \o path, lks)
    IN  IF RelativeTo(resolved, root)
        THEN [status |-> 200, resolved |-> resolved]
        ELSE [status |-> 400, resolved |-> resolved]

PathInit ==
    /\ WalkIdle
    /\ AuthIdle
    /\ DriveIdle
    /\ BridgeIdle
    /\ RaceIdle
    /\ links \in {{}} \cup {{[link |-> LinkPath, target |-> t]} : t \in LinkTargets}
    /\ path_in = <<>>
    /\ path_out = [status |-> 0, resolved |-> <<>>]

\* a caller-supplied text reaches resolve_safe_path
PathCall(relative_path) ==
    /\ path_out.status = 0
    /\ path_in' = relative_path
    /\ path_out' = resolve_safe_path(relative_path, links)
    /\ UNCHANGED <<links, walkVars, authVars, driveVars, bridgeVars, raceVars>>

\* the request is over
PathReturn ==
    /\ path_out.status # 0
    /\ path_in' = <<>>
    /\ path_out' = [status |-> 0, resolved |-> <<>>]
    /\ UNCHANGED <<links, walkVars, authVars, driveVars, bridgeVars, raceVars>>

PathNext ==
    \/ \E t \in Texts(PathChars, MaxPathLen) : PathCall(t)
    \/ PathReturn

SpecPath == PathInit /\ [][PathNext]_vars

(***************************************************************************)
(* Properties of the Boundary Resolver                                     *)
(***************************************************************************)
\* The location a text denotes when it is followed name by name from the
\* root directory, as the operating system follows a relative path name: an
\* empty name and "." stay, ".." is the parent, a link is followed.
RECURSIVE Follow(_, _)
Follow(cur, segs) ==
    IF segs = <<>> THEN cur
    ELSE LET g == segs[1]
             stepped == IF g = <<>> \/ g = <<".">> THEN cur
                        ELSE IF g = <<".", ".">> THEN (IF cur = <<>> THEN cur ELSE Front(cur))
                        ELSE IF \E l \in links : l.link = Append(cur, g)
                        THEN (CHOOSE l \in links : l.link = Append(cur, g)).target
                        ELSE Append(cur, g)
         IN  Follow(stepped, Tail(segs))

Denoted(t) == Follow(project_root, SplitSlash(Strip(t)))

\* the root itself or a location below it, name by name
InsideRoot(loc) ==
    /\ Len(loc) >= Len(project_root)
    /\ \A i \in 1..Len(project_root) : loc[i] = project_root[i]

HasDotDot(t) == \E i \in 1..Len(SplitSlash(t)) : SplitSlash(t)[i] = <<".", ".">>

HasAbsolutePrefix(t) == Strip(t) # <<>> /\ Strip(t)[1] = "/"

\* C4 (as amended): resolve_safe_path takes the text as relative to the root
\* (surrounding whitespace and leading separators removed) and rejects it
\* with 400 exactly when the location it denotes, `..` segments and links
\* followed, is neither the root nor below it name by name; otherwise it
\* returns that location. A text with `..` segments or leading separators
\* that stays inside the root is accepted; the sibling /s/pp of the root
\* /s/p is never returned.
C4_ResolveConfines ==
    path_out.status # 0 =>
        /\ path_out.status \in {200, 400}
        /\ path_out.status = 200 <=> InsideRoot(Denoted(path_in))
        /\ path_out.status = 200 =>
              /\ path_out.resolved = Denoted(path_in)
              /\ InsideRoot(path_out.resolved)
              /\ path_out.resolved # SiblingDir

\* a text with a `..` segment that denotes the sibling directory was rejected
C4_Witness ==
    /\ path_out.status = 400
    /\ HasDotDot(path_in)
    /\ links = {}
    /\ Denoted(path_in) = SiblingDir

\* C4 as stated: every text with a `..` segment, a leading separator or a
\* link leading out of the root is rejected, and every text that stays
\* inside the root is accepted.
C4_AsStated ==
    path_out.status # 0 =>
        /\ (HasDotDot(path_in) \/ HasAbsolutePrefix(path_in) \/ ~InsideRoot(Denoted(path_in)))
               => path_out.status = 400
        /\ InsideRoot(Denoted(path_in)) => path_out.status = 200

(***************************************************************************)
(* Drive Playground service: the store, the requests, the handlers         *)
(***************************************************************************)
\* DRIVE_PLAYGROUND_API_KEY, as the environment holds it
DriveKeyEnv == <<"k">>

\* the header pairs a caller presents: the secret as a Bearer value, or no
\* header at all
DriveCreds ==
    { [x_api_key |-> None, authorization |-> <<"Bearer", " ", "k">>],
      [x_api_key |-> None, authorization |-> None] }

GOOGLE_APP_MIME_TYPES ==
    { "application/vnd.google-apps.document",
      "application/vnd.google-apps.spreadsheet",
      "application/vnd.google-apps.presentation" }

MimeTypes == {"text/plain", "application/vnd.google-apps.document"}

Names == {"n", "m"}

\* inline contents: none given, the empty text, a text
Contents == {None, <<>>, <<"a">>}

\* fetch URLs: none given, a whitespace-only text, a URL
FileUrls == {None, <<>>, <<" ">>, <<"u">>}

\* what the fetch of a URL yields: an error, or the bytes served
FetchOutcomes == {None, <<>>, <<"a">>}

\* The folders and files the store holds from the start: the playground
\* root "pg" inside "top", a subfolder "sub" of the root, a folder "out"
\* beside the root and a file "secret" in it.
StaticIds == {"top", "pg", "sub", "out", "secret"}

StaticParents(id) ==
    CASE id = "top" -> <<>>
      [] id = "pg" -> <<"top">>
      [] id = "sub" -> <<"pg">>
      [] id = "out" -> <<"top">>
      [] id = "secret" -> <<"out">>

StaticFolders == {"top", "pg", "sub", "out"}

SecretContent == <<"s">>

\* the identifier the store gives to the i-th file created
CreatedId(i) == <<"f1", "f2", "f3", "f4">>[i]

CreatedIds(store) == {CreatedId(i) : i \in 1..Len(store)}

IndexOf(store, id) == CHOOSE i \in 1..Len(store) : CreatedId(i) = id

Exists(store, id) == id \in StaticIds \/ id \in CreatedIds(store)

\* files().get(fileId=id, fields="parents"): the parents list
ParentsOf(store, id) ==
    IF id \in StaticIds THEN StaticParents(id) ELSE <<store[IndexOf(store, id)].parent>>

\* get_playground_folder_id with DRIVE_PLAYGROUND_FOLDER_ID set
DrivePlaygroundId == playground_id

\* What goes wrong at the store during a request: nothing, or every parent
\* fetch of the ancestry walk raises.
Faults == {"none", "walk"}

\* is_under_playground, run to its end: the loop of WalkBody over the store's
\* parent links. A fetch fails when the store is out of reach or the
\* identifier names nothing.
RECURSIVE WalkLoop(_, _, _, _, _)
WalkLoop(store, tv, vis, pg, fault) ==
    IF tv = <<>> THEN FALSE
    ELSE LET fid == Last(tv)
             ok  == fault # "walk" /\ Exists(store, fid)
             r   == WalkBody(tv, vis, pg, IF ok THEN ParentsOf(store, fid) ELSE <<>>, ok)
         IN  IF r.ret = "true" THEN TRUE
             ELSE IF r.ret = "false" THEN FALSE
             ELSE WalkLoop(store, r.to_visit, r.visited, pg, fault)

is_under_playground(store, fid, pg, fault) == WalkLoop(store, <<fid>>, {}, pg, fault)

\* what a handler did, in order: [ev, target, ok]
Ev(e, t, ok) == [ev |-> e, target |-> t, ok |-> ok]

\* (folder_id or "").strip() or playground_id
FolderOrRoot(folder_id, pg) == IF folder_id = NoId \/ folder_id = "" THEN pg ELSE folder_id

\* a value that is neither None nor empty
Truthy(v) == v # None /\ v # <<>>

\* httpx can fetch a URL only if it is more than whitespace
Fetchable(url) == Strip(url) # <<>>

has_content(req) == req.content # None

has_file_url_unstripped(req) == Truthy(req.file_url)

has_file_url(req) == Strip(OrEmpty(req.file_url)) # <<>>

empty_google_app(req) ==
    req.mime_type \in GOOGLE_APP_MIME_TYPES /\ ~has_content(req) /\ ~has_file_url(req)

\* the files a same-name query finds in a folder
Matches(store, parent_id, name) ==
    {CreatedId(i) : i \in {j \in 1..Len(store) : store[j].parent = parent_id /\ store[j].name = name}}

\* write_file up to and including the existence check (lines 255-313):
\* status 0 when the handler goes on to update or create.
WritePlan(req, store, fault, fetched) ==
    LET stop(st, lg) == [status |-> st, log |-> lg, parent_id |-> NoId, media |-> None, files |-> {}]
        invalid   == <<Ev("validate", NoId, FALSE)>>
        valid     == <<Ev("validate", NoId, TRUE)>>
        auth      == require_api_key(DriveKeyEnv, req.x_api_key, req.authorization)
        parent_id == FolderOrRoot(req.folder_id, DrivePlaygroundId)
        checked   == parent_id # DrivePlaygroundId
        under     == is_under_playground(store, parent_id, DrivePlaygroundId, fault)
        lg1       == valid \o <<Ev("auth", NoId, TRUE), Ev("root", DrivePlaygroundId, TRUE)>>
        lg2       == IF checked THEN Append(lg1, Ev("check", parent_id, under)) ELSE lg1
        fetches   == Truthy(req.file_url)
        fetch_ok  == fetches /\ Fetchable(req.file_url) /\ fetched # None
        lg3       == IF fetches THEN Append(lg2, Ev("fetch", NoId, fetch_ok)) ELSE lg2
        media     == IF fetches THEN fetched
                     ELSE IF has_content(req) THEN OrEmpty(req.content)
                     ELSE None
    IN  IF ~has_content(req) /\ ~has_file_url(req) /\ ~empty_google_app(req) THEN stop(400, invalid)
        ELSE IF has_content(req) /\ has_file_url(req) THEN stop(400, invalid)
        ELSE IF auth # 200 THEN stop(auth, Append(valid, Ev("auth", NoId, FALSE)))
        ELSE IF checked /\ ~under THEN stop(403, lg2)
        ELSE IF fetches /\ ~fetch_ok THEN stop(502, lg3)
        ELSE [status |-> 0, log |-> Append(lg3, Ev("find", parent_id, TRUE)),
              parent_id |-> parent_id, media |-> media,
              files |-> Matches(store, parent_id, req.name)]

WriteFinishRechecks(req, plan, store, pick) ==
    LET now == Matches(store, plan.parent_id, req.name)
        hit == IF plan.files # {} THEN pick ELSE CHOOSE f \in now : TRUE
    IN  IF now # {}
        THEN IF plan.media = None
             THEN [status |-> 409, log |-> plan.log, action |-> "", id |-> NoId, store |-> store]
             ELSE [status |-> 200,
                   log |-> plan.log \o <<Ev("update", hit, TRUE), Ev("update", hit, TRUE)>>,
                   action |-> "updated", id |-> hit,
                   store |-> [store EXCEPT ![IndexOf(store, hit)] =
                                 [name |-> req.name, mimeType |-> req.mime_type,
                                  content |-> plan.media, parent |-> @.parent]]]
        ELSE [status |-> 200,
              log |-> Append(plan.log, Ev("create", plan.parent_id, TRUE)),
              action |-> "created", id |-> CreatedId(Len(store) + 1),
              store |-> Append(store, [name |-> req.name, mimeType |-> req.mime_type,
                                       content |-> plan.media, parent |-> plan.parent_id])]

WriteFinishAppends(req, plan, store, pick) ==
    IF plan.files # {} /\ plan.media = None
    THEN [status |-> 409, log |-> plan.log, action |-> "", id |-> NoId, store |-> store]
    ELSE IF plan.files # {}
    THEN [status |-> 200,
          log |-> plan.log \o <<Ev("update", pick, TRUE), Ev("update", pick, TRUE)>>,
          action |-> "updated", id |-> pick,
          store |-> [store EXCEPT ![IndexOf(store, pick)] =
                        [name |-> req.name, mimeType |-> req.mime_type,
                         content |-> @.content \o plan.media, parent |-> @.parent]]]
    ELSE [status |-> 200,
          log |-> Append(plan.log, Ev("create", plan.parent_id, TRUE)),
          action |-> "created", id |-> CreatedId(Len(store) + 1),
          store |-> Append(store, [name |-> req.name, mimeType |-> req.mime_type,
                                   content |-> plan.media, parent |-> plan.parent_id])]

WriteFinishOverwrites(req, plan, store, pick) ==
    IF plan.files # {}
    THEN [status |-> 200,
          log |-> plan.log \o <<Ev("update", pick, TRUE), Ev("update", pick, TRUE)>>,
          action |-> "updated", id |-> pick,
          store |-> [store EXCEPT ![IndexOf(store, pick)] =
                        [name |-> req.name, mimeType |-> req.mime_type,
                         content |-> plan.media, parent |-> @.parent]]]
    ELSE [status |-> 200,
          log |-> Append(plan.log, Ev("create", plan.parent_id, TRUE)),
          action |-> "created", id |-> CreatedId(Len(store) + 1),
          store |-> Append(store, [name |-> req.name, mimeType |-> req.mime_type,
                                   content |-> plan.media, parent |-> plan.parent_id])]

\* write_file from the existence check on (lines 315-330): pick is files[0],
\* the file the one-result query returned
WriteFinish(req, plan, store, pick) ==
    IF plan.files # {}
    THEN IF plan.media = None
         THEN [status |-> 409, log |-> plan.log, action |-> "", id |-> NoId, store |-> store]
         ELSE [status |-> 200,
               log |-> plan.log \o <<Ev("update", pick, TRUE), Ev("update", pick, TRUE)>>,
               action |-> "updated", id |-> pick,
               store |-> [store EXCEPT ![IndexOf(store, pick)] =
                             [name |-> req.name, mimeType |-> req.mime_type,
                              content |-> plan.media, parent |-> @.parent]]]
    ELSE [status |-> 200,
          log |-> Append(plan.log, Ev("create", plan.parent_id, TRUE)),
          action |-> "created", id |-> CreatedId(Len(store) + 1),
          store |-> Append(store, [name |-> req.name, mimeType |-> req.mime_type,
                                   content |-> plan.media, parent |-> plan.parent_id])]

\* the responses write_file can give to a request on a store
WriteOutcomes(req, store) ==
    UNION { LET plan == WritePlan(req, store, fault, fetched)
                done(o) == [status |-> o.status, log |-> o.log, action |-> o.action, id |-> o.id,
                            store |-> o.store, fault |-> fault]
            IN  IF plan.status # 0
                THEN {done([status |-> plan.status, log |-> plan.log, action |-> "", id |-> NoId,
                            store |-> store])}
                ELSE IF plan.files = {}
                THEN {done(WriteFinish(req, plan, store, NoId))}
                ELSE {done(WriteFinish(req, plan, store, pick)) : pick \in plan.files}
            : fault \in Faults, fetched \in FetchOutcomes }

WriteRequests ==
    { [x_api_key |-> c.x_api_key, authorization |-> c.authorization, name |-> n,
       content |-> ct, file_url |-> u, mime_type |-> mt, folder_id |-> fo, file_id |-> NoId]
      : c \in DriveCreds, n \in Names, ct \in Contents, u \in FileUrls, mt \in MimeTypes,
        fo \in {NoId, "sub", "out"} }

\* POST /write
DriveWrite(req) ==
    /\ dlast.op = "idle"
    /\ \E o \in WriteOutcomes(req, drive) :
          /\ Len(o.store) <= MaxFiles
          /\ drive' = o.store
          /\ dlast' = [op |-> "write", req |-> req, fault |-> o.fault, status |-> o.status, log |-> o.log,
                       action |-> o.action, id |-> o.id, body |-> <<>>, before |-> drive,
                       again |-> FALSE, first |-> <<>>]
    /\ UNCHANGED <<walkVars, authVars, pathVars, bridgeVars, raceVars>>

\* the caller sends the write that has just succeeded once more
DriveWriteAgain ==
    /\ dlast.op = "write"
    /\ dlast.status = 200
    /\ ~dlast.again
    /\ \E o \in WriteOutcomes(dlast.req, drive) :
          /\ Len(o.store) <= MaxFiles
          /\ drive' = o.store
          /\ dlast' = [op |-> "write", req |-> dlast.req, fault |-> o.fault, status |-> o.status, log |-> o.log,
                       action |-> o.action, id |-> o.id, body |-> <<>>, before |-> drive,
                       again |-> TRUE,
                       first |-> [status |-> dlast.status, action |-> dlast.action, id |-> dlast.id]]
    /\ UNCHANGED <<walkVars, authVars, pathVars, bridgeVars, raceVars>>


\* the content a download of a file gives; None when it has none to give
\* (a folder, a native document without media)
ContentOf(store, id) ==
    IF id = "secret" THEN SecretContent
    ELSE IF id \in StaticIds THEN None
    ELSE store[IndexOf(store, id)].content

\* GET /files/{file_id}/content (lines 210-229)
ReadOutcome(req, store, fault) ==
    LET auth   == require_api_key(DriveKeyEnv, req.x_api_key, req.authorization)
        fid    == req.file_id
        under  == is_under_playground(store, fid, DrivePlaygroundId, fault)
        got    == Exists(store, fid)
        lg1    == <<Ev("auth", NoId, TRUE), Ev("root", DrivePlaygroundId, TRUE), Ev("get", fid, got)>>
        lg2    == Append(lg1, Ev("check", fid, under))
        bytes  == ContentOf(store, fid)
    IN  IF auth # 200 THEN [status |-> auth, log |-> <<Ev("auth", NoId, FALSE)>>, body |-> <<>>]
        ELSE IF ~got THEN [status |-> 500, log |-> lg1, body |-> <<>>]
        ELSE IF ~under THEN [status |-> 403, log |-> lg2, body |-> <<>>]
        ELSE IF bytes = None
        THEN [status |-> 404, log |-> Append(lg2, Ev("download", fid, FALSE)), body |-> <<>>]
        ELSE [status |-> 200, log |-> Append(lg2, Ev("download", fid, TRUE)), body |-> bytes]

ReadRequests ==
    { [x_api_key |-> c.x_api_key, authorization |-> c.authorization, name |-> "",
       content |-> None, file_url |-> None, mime_type |-> "", folder_id |-> NoId, file_id |-> f]
      : c \in DriveCreds, f \in {"secret", "sub", "f1", "f2", "nope"} }

DriveRead(req) ==
    /\ dlast.op = "idle"
    /\ \E fault \in Faults :
          LET o == ReadOutcome(req, drive, fault)
          IN  dlast' = [op |-> "read", req |-> req, fault |-> fault, status |-> o.status, log |-> o.log,
                        action |-> "", id |-> NoId, body |-> o.body, before |-> drive,
                        again |-> FALSE, first |-> <<>>]
    /\ UNCHANGED <<drive, walkVars, authVars, pathVars, bridgeVars, raceVars>>

\* the files a listing of a folder returns
Children(store, parent_id) ==
    {id \in StaticIds : \E i \in 1..Len(StaticParents(id)) : StaticParents(id)[i] = parent_id}
        \cup {CreatedId(i) : i \in {j \in 1..Len(store) : store[j].parent = parent_id}}

\* GET /list (lines 176-201)
ListOutcome(req, store, fault) ==
    LET auth      == require_api_key(DriveKeyEnv, req.x_api_key, req.authorization)
        parent_id == FolderOrRoot(req.folder_id, DrivePlaygroundId)
        checked   == parent_id # DrivePlaygroundId
        under     == is_under_playground(store, parent_id, DrivePlaygroundId, fault)
        lg1       == <<Ev("auth", NoId, TRUE), Ev("root", DrivePlaygroundId, TRUE)>>
        lg2       == IF checked THEN Append(lg1, Ev("check", parent_id, under)) ELSE lg1
    IN  IF auth # 200 THEN [status |-> auth, log |-> <<Ev("auth", NoId, FALSE)>>, body |-> {}]
        ELSE IF checked /\ ~under THEN [status |-> 403, log |-> lg2, body |-> {}]
        ELSE [status |-> 200, log |-> Append(lg2, Ev("list", parent_id, TRUE)),
              body |-> Children(store, parent_id)]

ListRequests ==
    { [x_api_key |-> c.x_api_key, authorization |-> c.authorization, name |-> "",
       content |-> None, file_url |-> None, mime_type |-> "", folder_id |-> fo, file_id |-> NoId]
      : c \in DriveCreds, fo \in {NoId, "", "sub", "out"} }

DriveList(req) ==
    /\ dlast.op = "idle"
    /\ \E fault \in Faults :
          LET o == ListOutcome(req, drive, fault)
          IN  dlast' = [op |-> "list", req |-> req, fault |-> fault, status |-> o.status, log |-> o.log,
                        action |-> "", id |-> NoId, body |-> o.body, before |-> drive,
                        again |-> FALSE, first |-> <<>>]
    /\ UNCHANGED <<drive, walkVars, authVars, pathVars, bridgeVars, raceVars>>

\* the response is sent; the next request is independent of this one
DriveReturn ==
    /\ dlast.op # "idle"
    /\ dlast' = NoDriveRequest
    /\ UNCHANGED <<drive, walkVars, authVars, pathVars, bridgeVars, raceVars>>

DriveInit ==
    /\ WalkIdle
    /\ AuthIdle
    /\ PathIdle
    /\ DriveIdle
    /\ BridgeIdle
    /\ RaceIdle

DriveNext ==
    \/ \E req \in WriteRequests : DriveWrite(req)
    \/ DriveWriteAgain
    \/ \E req \in ReadRequests : DriveRead(req)
    \/ \E req \in ListRequests : DriveList(req)
    \/ DriveReturn

SpecDrive == DriveInit /\ [][DriveNext]_vars

(***************************************************************************)
(* Drive writes served side by side. Every request runs write_file in a    *)
(* thread of its own against the one store; the store calls of different   *)
(* requests interleave. A write is two steps: everything up to the answer  *)
(* of the existence query, then the update or create it decided on.        *)
(***************************************************************************)
\* the writes sent side by side: rightly authenticated, inline content
RaceRequests ==
    { [x_api_key |-> None, authorization |-> <<"Bearer", " ", "k">>, name |-> n,
       content |-> ct, file_url |-> None, mime_type |-> "text/plain", folder_id |-> fo,
       file_id |-> NoId]
      : n \in Names, ct \in {<<"a">>, <<"b">>}, fo \in {NoId, "sub"} }

\* write_file to the answer of the existence query (lines 255-314); pick is
\* files[0] of that answer
RacePlan(w, req) ==
    /\ writers[w].pc = "idle"
    /\ LET plan == WritePlan(req, drive, "none", None)
       IN  IF plan.status # 0
           THEN writers' = [writers EXCEPT ![w] =
                               [pc |-> "done", req |-> req, plan |-> plan, pick |-> NoId,
                                status |-> plan.status, action |-> "", id |-> NoId]]
           ELSE \E pick \in (IF plan.files = {} THEN {NoId} ELSE plan.files) :
                   writers' = [writers EXCEPT ![w] =
                                  [pc |-> "checked", req |-> req, plan |-> plan, pick |-> pick,
                                   status |-> 0, action |-> "", id |-> NoId]]
    /\ UNCHANGED <<driveVars, walkVars, authVars, pathVars, bridgeVars>>

\* write_file from `if files:` on (lines 315-330), on the store as it is now
RaceFinish(w) ==
    /\ writers[w].pc = "checked"
    /\ LET o == WriteFinish(writers[w].req, writers[w].plan, drive, writers[w].pick)
       IN  /\ Len(o.store) <= MaxFiles
           /\ drive' = o.store
           /\ writers' = [writers EXCEPT ![w] =
                             [@ EXCEPT !.pc = "done", !.status = o.status, !.action = o.action,
                                       !.id = o.id]]
    /\ UNCHANGED <<dlast, walkVars, authVars, pathVars, bridgeVars>>

\* the response is sent
RaceReturn(w) ==
    /\ writers[w].pc = "done"
    /\ writers' = [writers EXCEPT ![w] = IdleWriter]
    /\ UNCHANGED <<driveVars, walkVars, authVars, pathVars, bridgeVars>>

RaceInit ==
    /\ WalkIdle
    /\ AuthIdle
    /\ PathIdle
    /\ DriveIdle
    /\ BridgeIdle
    /\ RaceIdle

RaceNext ==
    \/ \E w \in Writers, req \in RaceRequests : RacePlan(w, req)
    \/ \E w \in Writers : RaceFinish(w)
    \/ \E w \in Writers : RaceReturn(w)

SpecRace == RaceInit /\ [][RaceNext]_vars

(***************************************************************************)
(* Code Bridge handlers: list_dir, read_file, write_file, run_command.     *)
(* The project tree is the root /s/p with the locations the request paths  *)
(* below reach; a location holds nothing, a directory or a file.           *)
(***************************************************************************)
\* CODE_BRIDGE_API_KEY, as the environment holds it
BridgeKeyEnv == <<"k">>

\* the header pairs a caller presents: the secret as a Bearer value, or no
\* header at all
BridgeCreds ==
    { [x_api_key |-> None, authorization |-> <<"Bearer", " ", "k">>],
      [x_api_key |-> None, authorization |-> None] }

\* CODE_BRIDGE_ALLOW_RUN: unset, "0", "1", " Yes"
RunEnvs == {None, <<"0">>, <<"1">>, <<" ", "Y", "e", "s">>}

\* str.lower(), on the letters the flag values are written with
Lower(t) ==
    [i \in 1..Len(t) |->
        CASE t[i] = "Y" -> "y"
          [] t[i] = "T" -> "t"
          [] OTHER -> t[i]]

allow_run_any_value(env) == Strip(OrEmpty(env)) # <<>>

allow_run(env) ==
    Lower(Strip(OrEmpty(env))) \in {<<"1">>, <<"t", "r", "u", "e">>, <<"y", "e", "s">>}

\* the locations below the root that requests reach: /s/p/p, /s/p/p/p, /s/p/l
BridgeLocs ==
    { project_root \o << <<"p">> >>,
      project_root \o << <<"p">>, <<"p">> >>,
      LinkPath }

\* the paths callers send: "", "p", "p/p", "l", "/p", "..", "../pp"
BridgePaths ==
    { <<>>, <<"p">>, <<"p", "/", "p">>, <<"l">>, <<"/", "p">>, <<".", ".">>,
      <<".", ".", "/", "p", "p">> }

\* the contents callers write
BridgeContents == {<<"a">>, <<"b">>}

\* how a started command ends: it exits, it runs into the 120 s timeout, or
\* subprocess.run raises before a process exists
RunOutcomes == {"done", "timeout", "error"}

Absent == [kind |-> "none", content |-> <<>>]

Dir == [kind |-> "dir", content |-> <<>>]

File(c) == [kind |-> "file", content |-> c]

\* what a location is: the tree below the root as fs holds it; the root, the
\* directories above it and the directory beside it exist
KindAt(fs, loc) ==
    IF loc \in DOMAIN fs THEN fs[loc].kind
    ELSE IF loc = SiblingDir THEN "dir"
    ELSE IF Len(loc) <= Len(project_root) /\ SubSeq(project_root, 1, Len(loc)) = loc THEN "dir"
    ELSE "none"

\* Path.mkdir(parents=True, exist_ok=True): ok is FALSE when it raises (a
\* file is in the way)
RECURSIVE MkdirP(_, _)
MkdirP(fs, d) ==
    IF KindAt(fs, d) = "dir" THEN [ok |-> TRUE, fs |-> fs]
    ELSE IF KindAt(fs, d) = "file" \/ d \notin DOMAIN fs THEN [ok |-> FALSE, fs |-> fs]
    ELSE LET up == MkdirP(fs, Front(d))
         IN  IF up.ok THEN [ok |-> TRUE, fs |-> [up.fs EXCEPT ![d] = Dir]] ELSE up

\* target.iterdir() with each entry's name and type; a link is a directory
\* when what it points to is one
Entries(fs, target, lks) ==
    { [name |-> Last(loc), type |-> IF fs[loc].kind = "dir" THEN "dir" ELSE "file"]
        : loc \in {l \in DOMAIN fs : Front(l) = target /\ fs[l].kind # "none"} }
    \cup
    { [name |-> Last(l.link), type |-> IF KindAt(fs, l.target) = "dir" THEN "dir" ELSE "file"]
        : l \in {k \in lks : Front(k.link) = target} }

list_dir(req, fs, lks) ==
    LET auth   == require_api_key(BridgeKeyEnv, req.x_api_key, req.authorization)
        lg1    == <<Ev("auth", None, auth = 200)>>
        blank  == Strip(req.path) = <<>>
        safe   == resolve_safe_path(req.path, lks)
        target == IF blank THEN project_root ELSE safe.resolved
        lg2    == IF blank THEN lg1 ELSE Append(lg1, Ev("check", req.path, safe.status = 200))
    IN  IF auth # 200 THEN [status |-> auth, log |-> lg1, body |-> <<>>]
        ELSE IF ~blank /\ safe.status # 200 THEN [status |-> 400, log |-> lg2, body |-> <<>>]
        ELSE IF KindAt(fs, target) # "dir"
        THEN [status |-> 400, log |-> Append(lg2, Ev("is_dir", req.path, FALSE)), body |-> <<>>]
        ELSE [status |-> 200,
              log |-> lg2 \o <<Ev("is_dir", req.path, TRUE), Ev("iterdir", req.path, TRUE)>>,
              body |-> Entries(fs, target, lks)]

\* the bridge's read_file
bridge_read_file(req, fs, lks) ==
    LET auth == require_api_key(BridgeKeyEnv, req.x_api_key, req.authorization)
        lg1  == <<Ev("auth", None, auth = 200)>>
        safe == resolve_safe_path(req.path, lks)
        lg2  == Append(lg1, Ev("check", req.path, safe.status = 200))
    IN  IF auth # 200 THEN [status |-> auth, log |-> lg1, body |-> <<>>]
        ELSE IF safe.status # 200 THEN [status |-> 400, log |-> lg2, body |-> <<>>]
        ELSE IF KindAt(fs, safe.resolved) # "file"
        THEN [status |-> 404, log |-> Append(lg2, Ev("is_file", req.path, FALSE)), body |-> <<>>]
        ELSE [status |-> 200,
              log |-> lg2 \o <<Ev("is_file", req.path, TRUE), Ev("read_text", req.path, TRUE)>>,
              body |-> fs[safe.resolved].content]

\* the bridge's write_file; a raise of mkdir is not caught and the framework
\* answers 500, as the handler does for a raise of write_text
bridge_write_file(req, fs, lks) ==
    LET auth == require_api_key(BridgeKeyEnv, req.x_api_key, req.authorization)
        lg1  == <<Ev("auth", None, auth = 200)>>
        safe == resolve_safe_path(req.path, lks)
        lg2  == Append(lg1, Ev("check", req.path, safe.status = 200))
        made == MkdirP(fs, Front(safe.resolved))
        lg3  == Append(lg2, Ev("mkdir", req.path, made.ok))
    IN  IF auth # 200 THEN [status |-> auth, log |-> lg1, fs |-> fs]
        ELSE IF safe.status # 200 THEN [status |-> 400, log |-> lg2, fs |-> fs]
        ELSE IF ~made.ok THEN [status |-> 500, log |-> lg3, fs |-> fs]
        ELSE IF KindAt(made.fs, safe.resolved) = "dir"
        THEN [status |-> 500, log |-> Append(lg3, Ev("write_text", req.path, FALSE)),
              fs |-> made.fs]
        ELSE [status |-> 200, log |-> Append(lg3, Ev("write_text", req.path, TRUE)),
              fs |-> [made.fs EXCEPT ![safe.resolved] = File(req.content)]]

run_command(req, env, fs, lks, outcome) ==
    LET auth  == require_api_key(BridgeKeyEnv, req.x_api_key, req.authorization)
        lg1   == <<Ev("auth", None, auth = 200)>>
        lg2   == Append(lg1, Ev("allow_run", None, allow_run(env)))
        blank == Strip(req.cwd) = <<>>
        safe  == resolve_safe_path(req.cwd, lks)
        cwd   == IF blank THEN project_root ELSE safe.resolved
        lg3   == IF blank THEN lg2 ELSE Append(lg2, Ev("check", req.cwd, safe.status = 200))
    IN  IF auth # 200 THEN [status |-> auth, log |-> lg1, ran |-> FALSE]
        ELSE IF ~allow_run(env) THEN [status |-> 403, log |-> lg2, ran |-> FALSE]
        ELSE IF ~blank /\ safe.status # 200 THEN [status |-> 400, log |-> lg3, ran |-> FALSE]
        ELSE IF ~blank /\ KindAt(fs, cwd) # "dir"
        THEN [status |-> 400, log |-> Append(lg3, Ev("is_dir", req.cwd, FALSE)), ran |-> FALSE]
        ELSE LET lg4 == IF blank THEN lg3 ELSE Append(lg3, Ev("is_dir", req.cwd, TRUE))
             IN  [status |-> CASE outcome = "done" -> 200
                               [] outcome = "timeout" -> 504
                               [] OTHER -> 500,
                  log |-> Append(lg4, Ev("subprocess.run", req.cwd, outcome # "error")),
                  ran |-> outcome # "error"]

BridgeList(req) ==
    /\ blast.op = "idle"
    /\ LET o == list_dir(req, bfs, links)
       IN  blast' = [op |-> "list", req |-> req, status |-> o.status, log |-> o.log,
                     body |-> o.body]
    /\ UNCHANGED <<run_env, bfs, runs, walkVars, authVars, pathVars, driveVars, raceVars>>

BridgeRead(req) ==
    /\ blast.op = "idle"
    /\ LET o == bridge_read_file(req, bfs, links)
       IN  blast' = [op |-> "read", req |-> req, status |-> o.status, log |-> o.log,
                     body |-> o.body]
    /\ UNCHANGED <<run_env, bfs, runs, walkVars, authVars, pathVars, driveVars, raceVars>>

BridgeWrite(req) ==
    /\ blast.op = "idle"
    /\ LET o == bridge_write_file(req, bfs, links)
       IN  /\ bfs' = o.fs
           /\ blast' = [op |-> "write", req |-> req, status |-> o.status, log |-> o.log,
                        body |-> <<>>]
    /\ UNCHANGED <<run_env, runs, walkVars, authVars, pathVars, driveVars, raceVars>>

BridgeRun(req) ==
    /\ blast.op = "idle"
    /\ runs < MaxRuns
    /\ \E outcome \in RunOutcomes :
          LET o == run_command(req, run_env, bfs, links, outcome)
          IN  /\ runs' = IF o.ran THEN runs + 1 ELSE runs
              /\ blast' = [op |-> "run", req |-> req, status |-> o.status, log |-> o.log,
                           body |-> <<>>]
    /\ UNCHANGED <<run_env, bfs, walkVars, authVars, pathVars, driveVars, raceVars>>

\* the request is over
BridgeReturn ==
    /\ blast.op # "idle"
    /\ blast' = [op |-> "idle", req |-> <<>>, status |-> 0, log |-> <<>>, body |-> <<>>]
    /\ UNCHANGED <<run_env, bfs, runs, walkVars, authVars, pathVars, driveVars, raceVars>>

BridgeInit ==
    /\ WalkIdle
    /\ AuthIdle
    /\ DriveIdle
    /\ links \in {{}} \cup {{[link |-> LinkPath, target |-> t]} : t \in LinkTargets}
    /\ path_in = <<>>
    /\ path_out = [status |-> 0, resolved |-> <<>>]
    /\ RaceIdle
    /\ run_env \in RunEnvs
    /\ bfs \in { [loc \in BridgeLocs |-> IF loc = project_root \o << <<"p">> >> THEN e ELSE Absent]
                 : e \in {Absent, File(<<"a">>)} }
    /\ runs = 0
    /\ blast = [op |-> "idle", req |-> <<>>, status |-> 0, log |-> <<>>, body |-> <<>>]

BridgeNext ==
    \/ \E c \in BridgeCreds, t \in BridgePaths :
          BridgeList([x_api_key |-> c.x_api_key, authorization |-> c.authorization, path |-> t])
    \/ \E c \in BridgeCreds, t \in BridgePaths :
          BridgeRead([x_api_key |-> c.x_api_key, authorization |-> c.authorization, path |-> t])
    \/ \E c \in BridgeCreds, t \in BridgePaths, ct \in BridgeContents :
          BridgeWrite([x_api_key |-> c.x_api_key, authorization |-> c.authorization,
                       path |-> t, content |-> ct])
    \/ \E c \in BridgeCreds, t \in BridgePaths :
          BridgeRun([x_api_key |-> c.x_api_key, authorization |-> c.authorization,
                     command |-> "echo hi", cwd |-> t])
    \/ BridgeReturn

SpecBridge == BridgeInit /\ [][BridgeNext]_vars

(***************************************************************************)
(* Properties of the handlers                                              *)
(***************************************************************************)
\* the request carries the configured secret in one of the two carriers
DriveCredsValid(req) ==
    \/ req.x_api_key = DriveKeyEnv
    \/ req.authorization = BearerPrefix \o DriveKeyEnv

BridgeCredsValid(req) ==
    \/ req.x_api_key = BridgeKeyEnv
    \/ req.authorization = BearerPrefix \o BridgeKeyEnv

\* the targets a request names itself: a folder or file of the Drive store,
\* a path or working directory of the bridge (one left out or blank stands
\* for the root)
DriveTargets(req) == {req.folder_id, req.file_id} \ {NoId, ""}

BridgeTargets(last) ==
    {IF last.op = "run" THEN last.req.cwd ELSE last.req.path} \ {<<>>}

\* the operations a handler performs on a target
TouchEvents ==
    { "get", "list", "download", "find", "create", "update",
      "is_dir", "iterdir", "is_file", "read_text", "mkdir", "write_text", "subprocess.run" }

\* in a handler's log, every operation on one of the targets comes after a
\* confinement check of that target that succeeded
CheckedBeforeTouched(log, targets) ==
    \A i \in 1..Len(log) :
        (log[i].ev \in TouchEvents /\ log[i].target \in targets) =>
            \E j \in 1..(i - 1) :
                /\ log[j].ev = "check"
                /\ log[j].target = log[i].target
                /\ log[j].ok

\* C1: in the answered request of either service, every operation on a
\* target the caller named comes after a confinement check of that target
\* that succeeded.
C1_CheckedBeforeTouched ==
    /\ CheckedBeforeTouched(dlast.log, DriveTargets(dlast.req))
    /\ CheckedBeforeTouched(blast.log, BridgeTargets(blast))

\* C6: in either service, a request whose secret is missing or wrong is
\* answered with the authentication error, 401, whatever else is wrong with
\* it.
C6_OnlyAuthError ==
    /\ (dlast.op # "idle" /\ ~DriveCredsValid(dlast.req)) => dlast.status = 401
    /\ (blast.op # "idle" /\ ~BridgeCredsValid(blast.req)) => blast.status = 401

\* what a write request supplies, as the caller sees it
SuppliesContent(req) == req.content # None

SuppliesUrl(req) == req.file_url # None /\ \E i \in 1..Len(req.file_url) : req.file_url[i] # " "

NativeType(req) == req.mime_type \in GOOGLE_APP_MIME_TYPES

\* the handler's log shows no confinement check, no fetch and no access to
\* the store
NoStoreAccess(log) ==
    \A i \in 1..Len(log) : log[i].ev \notin TouchEvents \cup {"root", "check", "fetch"}

\* C7: a write with both sources, or with none and a content type that is
\* not a native one, is answered 400 with no confinement check, fetch or
\* store access made and the store unchanged; any other write passes
\* validation: it is not answered 400 and its handler goes on.
C7_WriteValidatedFirst ==
    dlast.op = "write" =>
        IF \/ SuppliesContent(dlast.req) /\ SuppliesUrl(dlast.req)
           \/ ~SuppliesContent(dlast.req) /\ ~SuppliesUrl(dlast.req) /\ ~NativeType(dlast.req)
        THEN /\ dlast.status = 400
             /\ NoStoreAccess(dlast.log)
             /\ drive = dlast.before
        ELSE /\ dlast.status # 400
             /\ Len(dlast.log) >= 2
             /\ dlast.log[1] = Ev("validate", NoId, TRUE)

\* a write with both sources, rightly authenticated, was answered 400
C7_Witness ==
    /\ dlast.op = "write"
    /\ SuppliesContent(dlast.req)
    /\ SuppliesUrl(dlast.req)
    /\ DriveCredsValid(dlast.req)
    /\ dlast.status = 400

\* the folder a write request aims at
TargetFolder(req) == IF req.folder_id \in {NoId, ""} THEN DrivePlaygroundId ELSE req.folder_id

\* the files named name in folder, in a store
Named(store, folder, name) ==
    {i \in 1..Len(store) : store[i].parent = folder /\ store[i].name = name}

\* a write without content source arrived when its name existed in its folder
ConflictingWrite ==
    /\ dlast.op = "write"
    /\ ~SuppliesContent(dlast.req)
    /\ ~SuppliesUrl(dlast.req)
    /\ Named(dlast.before, TargetFolder(dlast.req), dlast.req.name) # {}

\* C8 (as amended): a write of N into F without content source, when N
\* exists in F, never changes the store. It is answered 409 when it passes
\* validation (its content type is a native one), authentication and the
\* confinement check of F; 400 when its content type is not native; 502 when
\* it carries a whitespace-only file_url; else 401 or 403.
C8_ConflictLeavesResource ==
    ConflictingWrite =>
        /\ drive = dlast.before
        /\ dlast.status \in {400, 401, 403, 409, 502}
        /\ dlast.status = 400 <=> ~NativeType(dlast.req)
        /\ (NativeType(dlast.req) /\ DriveCredsValid(dlast.req) /\ dlast.fault = "none")
               => dlast.status = (IF dlast.req.file_url \in {None, <<>>} THEN 409 ELSE 502)

\* the second write of a name, into the subfolder, was answered 409
C8_Witness ==
    /\ ConflictingWrite
    /\ dlast.req.folder_id = "sub"
    /\ dlast.status = 409

\* C8 as stated: a rightly authenticated write of N into F without content
\* source (no content, no or empty file_url), when N exists in F and the store
\* answers,
\* is answered 409 and changes nothing.
C8_AsStated ==
    (ConflictingWrite /\ DriveCredsValid(dlast.req) /\ dlast.req.file_url \in {None, <<>>}
        /\ dlast.fault = "none") =>
        /\ dlast.status = 409
        /\ drive = dlast.before

\* the same write with inline content arrived a second time, right after it
\* had updated the one file of its name in its folder
RepeatedUpdate ==
    /\ dlast.op = "write"
    /\ dlast.again
    /\ dlast.first.status = 200
    /\ dlast.first.action = "updated"
    /\ SuppliesContent(dlast.req)
    /\ Cardinality(Named(dlast.before, TargetFolder(dlast.req), dlast.req.name)) = 1

\* C9: an update write with inline content, sent again right after it
\* succeeded, leaves the store as the first one left it: the same file with
\* the same name, content type and content, no other file touched and none
\* created; when it is answered (the confinement check can fail on a lookup
\* error) it reports "updated" and the same identifier.
C9_UpdateIdempotent ==
    RepeatedUpdate =>
        /\ drive = dlast.before
        /\ Cardinality(Named(drive, TargetFolder(dlast.req), dlast.req.name)) = 1
        /\ dlast.status \in {200, 403}
        /\ dlast.fault = "none" => dlast.status = 200
        /\ dlast.status = 200 =>
              /\ dlast.action = "updated"
              /\ dlast.id = dlast.first.id
              /\ drive[IndexOf(drive, dlast.id)] =
                     [name |-> dlast.req.name, mimeType |-> dlast.req.mime_type,
                      content |-> dlast.req.content, parent |-> TargetFolder(dlast.req)]

\* the repeated update of a file in the subfolder was answered "updated"
C9_Witness ==
    /\ RepeatedUpdate
    /\ dlast.req.folder_id = "sub"
    /\ dlast.req.content = <<"a">>
    /\ dlast.status = 200
    /\ dlast.action = "updated"
    /\ Len(drive) = 2

\* the operator has switched the run capability on: the flag is set to one
\* of the affirmative values
RunSwitchedOn == run_env \in {<<"1">>, <<" ", "Y", "e", "s">>}

\* C10 (as amended): while the run capability is off, no command is ever
\* started, and a POST /run is answered 403 when it carries the right secret
\* and 401 when it does not; in both cases its handler did nothing after the
\* check that failed.
C10_RunGated ==
    ~RunSwitchedOn =>
        /\ runs = 0
        /\ blast.op = "run" =>
              IF BridgeCredsValid(blast.req)
              THEN /\ blast.status = 403
                   /\ blast.log = <<Ev("auth", None, TRUE), Ev("allow_run", None, FALSE)>>
              ELSE /\ blast.status = 401
                   /\ blast.log = <<Ev("auth", None, FALSE)>>

\* with the flag set to "0", a rightly authenticated run request was
\* answered 403
C10_Witness ==
    /\ run_env = <<"0">>
    /\ blast.op = "run"
    /\ BridgeCredsValid(blast.req)
    /\ blast.status = 403
    /\ runs = 0

\* C10 as stated: while the run capability is off, every POST /run is
\* answered 403 whatever its credentials, and no command is started.
C10_AsStated ==
    ~RunSwitchedOn =>
        /\ runs = 0
        /\ blast.op = "run" => blast.status = 403

\* the handler fetched the request's URL
Fetched(log) == \E i \in 1..Len(log) : log[i].ev = "fetch"

\* the file a successful write reports, as the store holds it
Written == drive[IndexOf(drive, dlast.id)]

\* C12: a write acts on the content source its validation classified: one
\* with content and no fetch URL (file_url absent, empty or whitespace-only)
\* fetches nothing and, when it succeeds, has stored exactly its content; a
\* fetch is made only for a write whose file_url is non-blank; and one that
\* is an empty native-app document stores no media.
C12_SourceAsClassified ==
    dlast.op = "write" =>
        /\ (SuppliesContent(dlast.req) /\ ~SuppliesUrl(dlast.req)) =>
              /\ ~Fetched(dlast.log)
              /\ dlast.status = 200 => Written.content = dlast.req.content
        /\ Fetched(dlast.log) => SuppliesUrl(dlast.req)
        /\ (~SuppliesContent(dlast.req) /\ ~SuppliesUrl(dlast.req) /\ NativeType(dlast.req)
               /\ dlast.status = 200) => Written.content = None

\* writer w creates a file on the strength of the answer it got earlier
CreatesUnchecked(w) ==
    /\ RaceFinish(w)
    /\ Len(drive') = Len(drive) + 1
    /\ writers'[w].action = "created"

\* writer w sends the request and its existence query finds nothing
ObservesNoMatch(w, req) ==
    /\ RacePlan(w, req)
    /\ writers'[w].pc = "checked"
    /\ writers'[w].plan.files = {}

\* C11: nothing is held between a write's existence query and its create.
\* While one write has been told "no match" and has not created yet, a
\* second write of the same name into the same folder can run its own query
\* and be told "no match" as well, and the first goes on to create whatever
\* the store holds by then. Side by side, a name in a folder can so come to
\* exist once per writer, and no more often.
C11_NoLockBetweenCheckAndCreate ==
    /\ \A w \in Writers :
          (writers[w].pc = "checked" /\ writers[w].plan.files = {}) =>
              /\ Len(drive) < MaxFiles => ENABLED CreatesUnchecked(w)
              /\ \A v \in Writers \ {w} :
                    (/\ writers[v].pc = "idle"
                     /\ Named(drive, TargetFolder(writers[w].req), writers[w].req.name) = {})
                        => ENABLED ObservesNoMatch(v, writers[w].req)
    /\ \A f \in {DrivePlaygroundId, "sub"}, n \in Names :
          Cardinality(Named(drive, f, n)) <= Cardinality(Writers)

\* two writes of one new name into the subfolder, side by side, have both
\* been answered "created", and the folder holds the name twice
C11_Witness ==
    /\ \A w \in Writers :
          /\ writers[w].pc = "done"
          /\ writers[w].action = "created"
          /\ writers[w].req.name = "n"
          /\ writers[w].req.folder_id = "sub"
    /\ writers[1].id # writers[2].id
    /\ Cardinality(Named(drive, "sub", "n")) = 2

====
